---- MODULE Spec2Model ----
(***************************************************************************)
(* handlevec: VecMutationHandle and mutate_vec_by_handles (src/src/lib.rs). *)
(*                                                                         *)
(* One pass over a vector is modelled: a loop that repeatedly calls        *)
(* VecMutationHandle::new on (vec, next_index) and, while a handle is      *)
(* alive, lets the per-element operation call any of the handle's public   *)
(* methods in any order before it returns or consumes the handle.          *)
(*                                                                         *)
(* Indices are 0-based as in the source; vec is a TLA+ sequence, so the    *)
(* element at Rust index i is vec[i + 1].  usize is scaled down to the     *)
(* range 0 .. UsizeMax.  Arithmetic on usize panics on overflow when the   *)
(* crate is built with overflow checks (debug profile) and wraps otherwise *)
(* (release profile); overflow_checks selects the build.                   *)
(***************************************************************************)
EXTENDS Integers, Sequences, FiniteSets

\* ---------------------------------------------------------------- bounds
MaxLen == 3
MaxIns == 2
UsizeMax == 5

Vals == {0}
Usize == 0 .. UsizeMax

\* offsets and range ends tried by the peeks: around the length, and usize::MAX
PeekArgs == (0 .. MaxLen + 1) \cup {UsizeMax}

VARIABLES
    vec,             \* the backing Vec<T>
    next_index,      \* the cursor (*index of new / *self.next_index)
    index,           \* self.index of the handle in scope (or of the last one)
    pc,              \* "idle" | "live" | "done" | "panicked"
    overflow_checks, \* build profile: TRUE = arithmetic overflow panics
    fault,           \* "none", or the failure that made the pass panic
    ret,             \* the value the latest method call returned (None for ())
    peek_arg,        \* the offset or range the latest peek was called with
    h,               \* history: what has been called on the latest handle
    hist,            \* history: which call put each slot of vec there
    trace            \* history of a traced pass: its input, the positions the
                     \* handles bound to, the elements discard returned

vars == <<vec, next_index, index, pc, overflow_checks, fault, ret, peek_arg, h, hist,
          trace>>

\* ---------------------------------------------------------------- helpers
SeqsUpTo(S, n) == UNION {[1 .. k -> S] : k \in 0 .. n}

\* Option<_> values: None, Some(x), Some(slice)
None == [some |-> FALSE, val |-> <<>>]
Some(s) == [some |-> TRUE, val |-> s]

\* usize arithmetic: a result outside 0 .. UsizeMax overflows
InRange(r) == r >= 0 /\ r <= UsizeMax
Wrap(r) == r % (UsizeMax + 1)

\* Vec::len
VecLen(v) == Len(v)

\* Vec::get(i): Some(&v[i]) when i < len
VecGet(v, i) == IF i < Len(v) THEN Some(<<v[i + 1]>>) ELSE None

\* Vec::insert(i, t), defined for i <= len: everything from i on moves up
VecInsert(v, i, t) ==
    [k \in 1 .. Len(v) + 1 |->
        IF k <= i THEN v[k] ELSE IF k = i + 1 THEN t ELSE v[k - 1]]

\* Vec::remove(i), defined for i < len: everything after i moves down
VecRemove(v, i) ==
    [k \in 1 .. Len(v) - 1 |-> IF k <= i THEN v[k] ELSE v[k + 1]]

\* slice.get(a..b): the sub-slice when a <= b <= len
SliceGetRange(s, a, b) ==
    IF a <= b /\ b <= Len(s) THEN Some(SubSeq(s, a + 1, b)) ELSE None

\* ---------------------------------------------------------------- history
\* skips: skip_forward, insert_and_skip or insert_and_skip_vec was called;
\* proc: insert_and_process was called; later_ins: some insertion followed the
\* latest insert_and_process; end: how the handle's life ended ("none": alive)
FreshH == [skips |-> FALSE, proc |-> FALSE, later_ins |-> FALSE, end |-> "none"]
Slot(tag) == [tag |-> tag]

\* A pass is traced when its specification starts the trace; an untraced
\* pass records nothing.
NoTrace == [on |-> FALSE, vec0 |-> <<>>, visited |-> <<>>, returned |-> <<>>]
StartTrace(v) == [on |-> TRUE, vec0 |-> v, visited |-> <<>>, returned |-> <<>>]
Visited(p) == IF trace.on THEN [trace EXCEPT !.visited = Append(@, p)] ELSE trace
Returned(x) == IF trace.on THEN [trace EXCEPT !.returned = Append(@, x)] ELSE trace

\* ---------------------------------------------------------------- methods
\* mutants of new: the bound test off by one; the cursor not advanced
new_len_inclusive(v, c) ==
    IF c <= VecLen(v)
    THEN [some |-> TRUE, index |-> c, next_index |-> c + 1]
    ELSE [some |-> FALSE, index |-> c, next_index |-> c]
new_cursor_kept(v, c) ==
    IF c < VecLen(v)
    THEN [some |-> TRUE, index |-> c, next_index |-> c]
    ELSE [some |-> FALSE, index |-> c, next_index |-> c]

\* VecMutationHandle::new
new(v, c) ==
    IF c < VecLen(v)
    THEN [some |-> TRUE, index |-> c, next_index |-> c + 1]
    ELSE [some |-> FALSE, index |-> c, next_index |-> c]

\* get / get_mut: self.vec.get(self.index), before the unwrap
get(v, i) == VecGet(v, i)

\* mutant of set: the first element is written
set_first(v, i, t) == [v EXCEPT ![1] = t]

\* set: *self.get_mut() = t
set(v, i, t) == [v EXCEPT ![i + 1] = t]

\* replace: std::mem::replace(self.get_mut(), t)
replace(v, i, t) == [vec |-> [v EXCEPT ![i + 1] = t], ret |-> v[i + 1]]

\* mutant of discard: the cursor is not decremented
discard_next_index_kept(nx) == nx

\* discard: *self.next_index -= 1
discard_next_index(nx) == nx - 1

\* mutants of discard_vec: the last element is removed; the first one is
discard_vec_last(v, i) == VecRemove(v, Len(v) - 1)
discard_vec_first(v, i) == VecRemove(v, 0)

\* discard / discard_and_stop_iteration: self.vec.remove(self.index)
discard_vec(v, i) == VecRemove(v, i)

\* mutants of insert_and_process: insertion before the current element;
\* insertion at the end of the vector
insert_and_process_before(v, i, t) == VecInsert(v, i, t)
insert_and_process_push(v, i, t) == VecInsert(v, Len(v), t)

\* insert_and_process: self.vec.insert(self.index + 1, t)
insert_and_process(v, i, t) == VecInsert(v, i + 1, t)

\* mutant of skip_forward: the cursor is not moved
skip_forward_none(nx, steps_to_skip) == nx

\* skip_forward: *self.next_index += steps_to_skip
skip_forward(nx, steps_to_skip) == nx + steps_to_skip

\* mutant of stop_iteration: the cursor is left as it is
stop_iteration_cursor_kept == next_index

\* stop_iteration / discard_and_stop_iteration: *self.next_index = usize::MAX
stop_iteration_next_index == UsizeMax

\* mutant of the peeks: the whole vector instead of the tail from index
tail_from_start(v, i) == Some(v)

\* self.vec.get(self.index..): the tail from index on, when index <= len
tail_from(v, i) ==
    IF i <= Len(v) THEN Some(SubSeq(v, i + 1, Len(v))) ELSE None

\* peek_forward_slice(i) / peek_forward_slice_mut(i) with a single offset
peek_forward_slice(v, i, off) ==
    LET t == tail_from(v, i) IN
    IF t.some THEN VecGet(t.val, off) ELSE None

\* peek_forward_slice(a..b) / peek_forward_slice_mut(a..b) with a range
peek_forward_slice_range(v, i, a, b) ==
    LET t == tail_from(v, i) IN
    IF t.some THEN SliceGetRange(t.val, a, b) ELSE None

\* insert_and_process_vec: for t in vec.into_iter().rev() { insert_and_process(t) }
RECURSIVE insert_and_process_vec(_, _, _)
insert_and_process_vec(v, i, ts) ==
    IF ts = <<>> THEN v
    ELSE insert_and_process_vec(insert_and_process(v, i, ts[Len(ts)]), i,
                                SubSeq(ts, 1, Len(ts) - 1))

\* insert_and_skip_vec: let steps_to_skip = vec.len()
insert_and_skip_vec_steps(ts) == Len(ts)

\* a write of t through the reference peek_forward_slice_mut(off) returns:
\* the element at offset off of the tail self.vec.get_mut(self.index..)
peek_write(v, i, off, t) ==
    SubSeq(v, 1, i) \o [tail_from(v, i).val EXCEPT ![off + 1] = t]

\* a write of t at offset k of the slice peek_forward_slice_mut(a..b) returns
peek_write_range(v, i, a, k, t) ==
    SubSeq(v, 1, i) \o [tail_from(v, i).val EXCEPT ![a + k + 1] = t]

\* ---------------------------------------------------------------- actions
\* T is an opaque type parameter: the methods move, drop and overwrite
\* elements but never inspect them.  The initial elements are pairwise
\* distinct (1 .. n) so that every move is visible; written and inserted
\* values are drawn from Vals.
Init ==
    /\ vec \in {[k \in 1 .. n |-> k] : n \in 0 .. MaxLen}
    /\ next_index \in Usize
    /\ index = 0
    /\ pc = "idle"
    /\ overflow_checks \in BOOLEAN
    /\ fault = "none"
    /\ ret = None
    /\ peek_arg = <<>>
    /\ h = FreshH
    /\ hist = [k \in 1 .. Len(vec) |-> Slot("orig")]
    /\ trace = NoTrace

\* The cursor after a usize addition or subtraction with raw result r: the
\* result wraps when the build has no overflow checks (with them the
\* operation panics and the cursor keeps its value).
Stored(r) ==
    IF InRange(r) THEN r ELSE IF overflow_checks THEN next_index ELSE Wrap(r)
Panics(r) == ~InRange(r) /\ overflow_checks

\* while let Some(handle) = VecMutationHandle::new(vec, &mut curr_index)
New ==
    /\ pc \in {"idle", "done"}
    /\ LET r == new(vec, next_index) IN
        /\ next_index' = r.next_index
        /\ index' = IF r.some THEN r.index ELSE index
        /\ pc' = IF r.some THEN "live" ELSE "done"
        /\ h' = IF r.some THEN FreshH ELSE h
        /\ trace' = IF r.some THEN Visited(r.index) ELSE trace
    /\ ret' = None
    /\ peek_arg' = <<>>
    /\ UNCHANGED <<vec, overflow_checks, fault, hist>>

\* the per-element operation returns without consuming the handle
Return ==
    /\ pc = "live"
    /\ pc' = "idle"
    /\ h' = [h EXCEPT !.end = "return"]
    /\ ret' = None
    /\ peek_arg' = <<>>
    /\ UNCHANGED <<vec, next_index, index, overflow_checks, fault, hist, trace>>

Get ==
    /\ pc = "live"
    /\ LET r == get(vec, index) IN
        /\ pc' = IF r.some THEN pc ELSE "panicked"
        /\ fault' = IF r.some THEN fault ELSE "unwrap_none"
        /\ ret' = r
    /\ peek_arg' = <<>>
    /\ UNCHANGED <<vec, next_index, index, overflow_checks, h, hist, trace>>

\* get_mut, and a write of t through the reference it returns
GetMut ==
    /\ pc = "live"
    /\ \E t \in Vals :
        LET r == get(vec, index) IN
        /\ vec' = IF r.some THEN set(vec, index, t) ELSE vec
        /\ pc' = IF r.some THEN pc ELSE "panicked"
        /\ fault' = IF r.some THEN fault ELSE "unwrap_none"
        /\ ret' = r
    /\ peek_arg' = <<>>
    /\ UNCHANGED <<next_index, index, overflow_checks, h, hist, trace>>

Set ==
    /\ pc = "live"
    /\ \E t \in Vals :
        LET r == get(vec, index) IN
        /\ vec' = IF r.some THEN set(vec, index, t) ELSE vec
        /\ pc' = IF r.some THEN pc ELSE "panicked"
        /\ fault' = IF r.some THEN fault ELSE "unwrap_none"
    /\ ret' = None
    /\ peek_arg' = <<>>
    /\ UNCHANGED <<next_index, index, overflow_checks, h, hist, trace>>

Replace ==
    /\ pc = "live"
    /\ \E t \in Vals :
        LET r == get(vec, index) IN
        /\ vec' = IF r.some THEN replace(vec, index, t).vec ELSE vec
        /\ ret' = IF r.some THEN Some(<<replace(vec, index, t).ret>>) ELSE None
        /\ pc' = IF r.some THEN pc ELSE "panicked"
        /\ fault' = IF r.some THEN fault ELSE "unwrap_none"
    /\ peek_arg' = <<>>
    /\ UNCHANGED <<next_index, index, overflow_checks, h, hist, trace>>

\* discard(self): the cursor is decremented first, then the element removed
Discard ==
    /\ pc = "live"
    /\ LET r == discard_next_index(next_index) IN
        /\ next_index' = Stored(r)
        /\ IF Panics(r)
           THEN /\ pc' = "panicked"
                /\ fault' = "sub_overflow"
                /\ ret' = None
                /\ UNCHANGED <<vec, hist, trace>>
           ELSE IF index >= VecLen(vec)
           THEN /\ pc' = "panicked"
                /\ fault' = "remove_out_of_bounds"
                /\ ret' = None
                /\ UNCHANGED <<vec, hist, trace>>
           ELSE /\ pc' = "idle"
                /\ vec' = discard_vec(vec, index)
                /\ hist' = discard_vec(hist, index)
                /\ ret' = Some(<<vec[index + 1]>>)
                /\ trace' = Returned(vec[index + 1])
                /\ fault' = fault
    /\ h' = [h EXCEPT !.end = "discard"]
    /\ peek_arg' = <<>>
    /\ UNCHANGED <<index, overflow_checks>>

InsertAndProcess ==
    /\ pc = "live"
    /\ VecLen(vec) < MaxLen
    /\ \E t \in Vals :
        IF index + 1 <= VecLen(vec)
        THEN /\ vec' = insert_and_process(vec, index, t)
             /\ hist' = insert_and_process(hist, index, Slot("process"))
             /\ pc' = pc
             /\ fault' = fault
        ELSE /\ pc' = "panicked"
             /\ fault' = "insert_out_of_bounds"
             /\ UNCHANGED <<vec, hist>>
    /\ h' = [h EXCEPT !.proc = TRUE, !.later_ins = FALSE]
    /\ ret' = None
    /\ peek_arg' = <<>>
    /\ UNCHANGED <<next_index, index, overflow_checks, trace>>

SkipForward ==
    /\ pc = "live"
    /\ \E steps_to_skip \in Usize :
        LET r == skip_forward(next_index, steps_to_skip) IN
        /\ next_index' = Stored(r)
        /\ pc' = IF Panics(r) THEN "panicked" ELSE pc
        /\ fault' = IF Panics(r) THEN "add_overflow" ELSE fault
    /\ h' = [h EXCEPT !.skips = TRUE]
    /\ ret' = None
    /\ peek_arg' = <<>>
    /\ UNCHANGED <<vec, index, overflow_checks, hist, trace>>

StopIteration ==
    /\ pc = "live"
    /\ next_index' = stop_iteration_next_index
    /\ pc' = "idle"
    /\ h' = [h EXCEPT !.end = "stop_iteration"]
    /\ ret' = None
    /\ peek_arg' = <<>>
    /\ UNCHANGED <<vec, index, overflow_checks, fault, hist, trace>>

DiscardAndStopIteration ==
    /\ pc = "live"
    /\ next_index' = stop_iteration_next_index
    /\ IF index >= VecLen(vec)
       THEN /\ pc' = "panicked"
            /\ fault' = "remove_out_of_bounds"
            /\ ret' = None
            /\ UNCHANGED <<vec, hist, trace>>
       ELSE /\ pc' = "idle"
            /\ vec' = discard_vec(vec, index)
            /\ hist' = discard_vec(hist, index)
            /\ ret' = Some(<<vec[index + 1]>>)
            /\ trace' = Returned(vec[index + 1])
            /\ fault' = fault
    /\ h' = [h EXCEPT !.end = "discard_and_stop_iteration"]
    /\ peek_arg' = <<>>
    /\ UNCHANGED <<index, overflow_checks>>

\* insert_and_skip: self.insert_and_process(t); self.skip_forward(1)
\* (the vector is not grown beyond cap elements)
InsertAndSkipUpTo(cap) ==
    /\ pc = "live"
    /\ VecLen(vec) < cap
    /\ \E t \in Vals :
        IF index + 1 <= VecLen(vec)
        THEN LET r == skip_forward(next_index, 1) IN
             /\ vec' = insert_and_process(vec, index, t)
             /\ hist' = insert_and_process(hist, index, Slot("skip"))
             /\ next_index' = Stored(r)
             /\ pc' = IF Panics(r) THEN "panicked" ELSE pc
             /\ fault' = IF Panics(r) THEN "add_overflow" ELSE fault
        ELSE /\ pc' = "panicked"
             /\ fault' = "insert_out_of_bounds"
             /\ UNCHANGED <<vec, hist, next_index>>
    /\ h' = [h EXCEPT !.skips = TRUE, !.later_ins = h.proc]
    /\ ret' = None
    /\ peek_arg' = <<>>
    /\ UNCHANGED <<index, overflow_checks, trace>>

InsertAndSkip == InsertAndSkipUpTo(MaxLen)

\* insert_and_process_vec: the values end up after the current element in
\* the order of ts
InsertAndProcessVec ==
    /\ pc = "live"
    /\ \E ts \in SeqsUpTo(Vals, MaxIns) :
        /\ VecLen(vec) + Len(ts) <= MaxLen
        /\ IF ts = <<>> \/ index + 1 <= VecLen(vec)
           THEN /\ vec' = insert_and_process_vec(vec, index, ts)
                /\ hist' = insert_and_process_vec(hist, index,
                               [k \in 1 .. Len(ts) |-> Slot("process")])
                /\ pc' = pc
                /\ fault' = fault
           ELSE /\ pc' = "panicked"
                /\ fault' = "insert_out_of_bounds"
                /\ UNCHANGED <<vec, hist>>
        /\ h' = [h EXCEPT !.later_ins = h.later_ins \/ (h.proc /\ ts # <<>>)]
    /\ ret' = None
    /\ peek_arg' = <<>>
    /\ UNCHANGED <<next_index, index, overflow_checks, trace>>

\* insert_and_skip_vec: insert_and_process_vec(vec); skip_forward(vec.len())
InsertAndSkipVec ==
    /\ pc = "live"
    /\ \E ts \in SeqsUpTo(Vals, MaxIns) :
        /\ VecLen(vec) + Len(ts) <= MaxLen
        /\ IF ts = <<>> \/ index + 1 <= VecLen(vec)
           THEN LET r == skip_forward(next_index, insert_and_skip_vec_steps(ts)) IN
                /\ vec' = insert_and_process_vec(vec, index, ts)
                /\ hist' = insert_and_process_vec(hist, index,
                               [k \in 1 .. Len(ts) |-> Slot("skip")])
                /\ next_index' = Stored(r)
                /\ pc' = IF Panics(r) THEN "panicked" ELSE pc
                /\ fault' = IF Panics(r) THEN "add_overflow" ELSE fault
           ELSE /\ pc' = "panicked"
                /\ fault' = "insert_out_of_bounds"
                /\ UNCHANGED <<vec, hist, next_index>>
        /\ h' = [h EXCEPT !.skips = TRUE,
                          !.later_ins = h.later_ins \/ (h.proc /\ ts # <<>>)]
    /\ ret' = None
    /\ peek_arg' = <<>>
    /\ UNCHANGED <<index, overflow_checks, trace>>

\* peek_forward_slice_mut(off), and a write of t through the reference
PeekForwardSliceMut ==
    /\ pc = "live"
    /\ \E off \in PeekArgs, t \in Vals :
        LET r == peek_forward_slice(vec, index, off) IN
        /\ vec' = IF r.some THEN peek_write(vec, index, off, t) ELSE vec
        /\ ret' = r
        /\ peek_arg' = <<off>>
    /\ UNCHANGED <<next_index, index, pc, overflow_checks, fault, h, hist, trace>>

\* the same call and write with the result left unrecorded
PeekForwardSliceMutWrite ==
    /\ pc = "live"
    /\ \E off \in PeekArgs, t \in Vals :
        LET r == peek_forward_slice(vec, index, off) IN
        vec' = IF r.some THEN peek_write(vec, index, off, t) ELSE vec
    /\ ret' = None
    /\ peek_arg' = <<>>
    /\ UNCHANGED <<next_index, index, pc, overflow_checks, fault, h, hist, trace>>

\* peek_forward_slice(off): a read, no state of the program changes
PeekForwardSlice ==
    /\ pc = "live"
    /\ \E off \in PeekArgs :
        /\ ret' = peek_forward_slice(vec, index, off)
        /\ peek_arg' = <<off>>
    /\ UNCHANGED <<vec, next_index, index, pc, overflow_checks, fault, h, hist, trace>>

\* peek_forward_slice(a..b)
PeekForwardSliceRange ==
    /\ pc = "live"
    /\ \E a \in PeekArgs, b \in PeekArgs :
        /\ ret' = peek_forward_slice_range(vec, index, a, b)
        /\ peek_arg' = <<a, b>>
    /\ UNCHANGED <<vec, next_index, index, pc, overflow_checks, fault, h, hist, trace>>

\* peek_forward_slice_mut(a..b), and a write of t at offset k of the slice
PeekForwardSliceMutRange ==
    /\ pc = "live"
    /\ \E a \in PeekArgs, b \in PeekArgs, k \in 0 .. MaxLen, t \in Vals :
        LET r == peek_forward_slice_range(vec, index, a, b) IN
        /\ vec' = IF r.some /\ k < Len(r.val)
                  THEN peek_write_range(vec, index, a, k, t) ELSE vec
        /\ ret' = r
        /\ peek_arg' = <<a, b>>
    /\ UNCHANGED <<next_index, index, pc, overflow_checks, fault, h, hist, trace>>

Next ==
    \/ New
    \/ Return
    \/ Get
    \/ GetMut
    \/ Set
    \/ Replace
    \/ Discard
    \/ InsertAndProcess
    \/ SkipForward
    \/ StopIteration
    \/ DiscardAndStopIteration
    \/ InsertAndSkip
    \/ InsertAndProcessVec
    \/ InsertAndSkipVec
    \/ PeekForwardSliceMutWrite

\* One pass, any starting cursor (the manual loop owns the cursor).
Spec == Init /\ [][Next]_vars

\* The same pass in a build with overflow checks only (the debug profile).
InitChecked == Init /\ overflow_checks = TRUE
SpecChecked == InitChecked /\ [][Next]_vars

\* The driver calls new again whenever no handle is in scope, and the
\* per-element operation returns.
FairSpec == Spec /\ WF_vars(New) /\ WF_vars(Return)

\* The peeks as functions of (vec, index): a handle just constructed at any
\* position of any vector.
PeekInit ==
    /\ vec \in {[k \in 1 .. n |-> k] : n \in 1 .. MaxLen}
    /\ index \in 0 .. Len(vec) - 1
    /\ next_index = index + 1
    /\ pc = "live"
    /\ overflow_checks \in BOOLEAN
    /\ fault = "none"
    /\ ret = None
    /\ peek_arg = <<>>
    /\ h = FreshH
    /\ hist = [k \in 1 .. Len(vec) |-> Slot("orig")]
    /\ trace = NoTrace

PeekNext ==
    \/ PeekForwardSlice
    \/ PeekForwardSliceRange
    \/ PeekForwardSliceMut
    \/ PeekForwardSliceMutRange

SpecPeek == PeekInit /\ [][PeekNext]_vars

\* ------------------------------------------------------------ driven passes
\* mutant of the driver: the cursor starts at usize::MAX
mutate_vec_by_handles_index_max == UsizeMax

\* mutate_vec_by_handles: let mut index = 0
mutate_vec_by_handles_index == 0

\* mutate_vec_by_handles(vec, op), and vec.mutate_vec_by_handles(op) which
\* forwards to it: the loop of New with the cursor starting at 0, the
\* per-element operation calling whatever it likes.
DrivenInit == Init /\ next_index = mutate_vec_by_handles_index
SpecDriven == DrivenInit /\ [][Next]_vars

\* A traced driven pass over any vector of up to MaxLen elements drawn from
\* Elems (equal elements included).
Elems == 1 .. MaxLen
PassInit ==
    /\ vec \in SeqsUpTo(Elems, MaxLen)
    /\ next_index = mutate_vec_by_handles_index
    /\ index = 0
    /\ pc = "idle"
    /\ overflow_checks \in BOOLEAN
    /\ fault = "none"
    /\ ret = None
    /\ peek_arg = <<>>
    /\ h = FreshH
    /\ hist = [k \in 1 .. Len(vec) |-> Slot("orig")]
    /\ trace = StartTrace(vec)

\* op = |handle| { handle.discard(); }
DiscardNext ==
    \/ New
    \/ Discard
SpecDiscardPass == PassInit /\ [][DiscardNext]_vars

\* A Vec<T> holds at most isize::MAX bytes, so a vector twice as long as the
\* input exists only for inputs of up to PassLen elements.
PassLen == UsizeMax \div 2
InsertAndSkipInit == PassInit /\ Len(vec) <= PassLen

\* op = |mut handle| { handle.insert_and_skip(t); }
InsertAndSkipOnce == ~h.skips /\ InsertAndSkipUpTo(2 * PassLen)
ReturnAfterInsert == h.skips /\ Return
InsertAndSkipNext ==
    \/ New
    \/ InsertAndSkipOnce
    \/ ReturnAfterInsert
SpecInsertAndSkipPass == InsertAndSkipInit /\ [][InsertAndSkipNext]_vars

\* op calls only get, get_mut, set and replace, any number of times
SetNext ==
    \/ New
    \/ Get
    \/ GetMut
    \/ Set
    \/ Replace
    \/ Return
SpecSetPass == PassInit /\ [][SetNext]_vars

\* op calls no insert operation: anything else, any number of times
NoInsertNext ==
    \/ New
    \/ Return
    \/ Get
    \/ GetMut
    \/ Set
    \/ Replace
    \/ Discard
    \/ SkipForward
    \/ StopIteration
    \/ DiscardAndStopIteration
    \/ PeekForwardSliceMutWrite
SpecNoInsert == DrivenInit /\ [][NoInsertNext]_vars

\* ---------------------------------------------------------------- claims
Ended == pc \in {"done", "panicked"}

C2_DiscardContract ==
    [][Discard =>
        /\ pc' = "idle"
        /\ ret' = Some(<<vec[index + 1]>>)
        /\ Len(vec') = Len(vec) - 1
        /\ \A k \in 1 .. index : vec'[k] = vec[k]
        /\ \A k \in index + 2 .. Len(vec) : vec'[k - 1] = vec[k]
        /\ next_index' = next_index - 1]_vars

C4_InsertedIsNext ==
    [][(New /\ h.proc) =>
        pc' = "live" /\ hist'[index' + 1].tag = "process"]_vars

\* C4 amended: when the step calls no skip (skip_forward, insert_and_skip,
\* insert_and_skip_vec), does not stop the iteration and makes no further
\* insertion after insert_and_process(v), the next handle binds to the slot
\* v was inserted in: position p + 1 if the handle is dropped, p if it is
\* discarded.
C4_Amended ==
    [][(New /\ h.proc /\ ~h.later_ins /\ ~h.skips
            /\ h.end \in {"return", "discard"}) =>
        /\ pc' = "live"
        /\ index' = IF h.end = "return" THEN index + 1 ELSE index
        /\ hist'[index' + 1].tag = "process"]_vars

C4_Witness ==
    /\ pc = "idle" /\ h.proc /\ ~h.later_ins /\ ~h.skips /\ h.end = "discard"
    /\ next_index = index /\ index < Len(vec) /\ hist[index + 1].tag = "process"

\* C5: no handle ever binds to an element inserted by insert_and_skip (or
\* insert_and_skip_vec) in the same pass.
C5_SkippedNeverVisited ==
    (pc = "live" /\ index < Len(vec)) => hist[index + 1].tag # "skip"

\* C6: stop_iteration sets the cursor to usize::MAX and leaves the vector
\* unchanged; from then on no handle is constructed (so the handle that
\* stopped was the last one) and the vector stays as it is.
C6_StopIteration ==
    /\ [][StopIteration =>
            next_index' = UsizeMax /\ vec' = vec /\ pc' = "idle"]_vars
    /\ [](h.end = "stop_iteration" =>
            pc \in {"idle", "done"} /\ next_index = UsizeMax)
    /\ [][h.end = "stop_iteration" =>
            vec' = vec /\ index' = index /\ h'.end = "stop_iteration"]_vars

C6_Witness ==
    /\ h.end = "stop_iteration" /\ pc = "done"
    /\ index = 1 /\ Len(vec) = 3 /\ next_index = UsizeMax

\* C7 as stated, for the build with overflow checks (where the cursor never
\* wraps): every pass ends, whatever the per-element operation calls.
C7_Terminates == overflow_checks => <>Ended

\* C7 amended: a pass ends unless the per-element operation goes on calling
\* insert_and_process, insert_and_process_vec or skip_forward for ever; in
\* particular every pass ends whose operation never calls these three.
C7_Amended ==
    \/ <>Ended
    \/ []<><<InsertAndProcess \/ InsertAndProcessVec \/ SkipForward>>_vars

C7_Witness ==
    /\ pc = "done" /\ h.end = "discard" /\ Len(vec) = 2
    /\ \E k \in 1 .. Len(vec) : hist[k].tag = "skip"

\* C8: no operation of a handle panics.
C8_NoPanic == pc # "panicked"

\* C9: a peek at position p with offset i returns the element at p + i when
\* p + i < length and None otherwise; with range a..b it returns exactly the
\* elements at p + a .. p + b - 1 when a <= b and p + b <= length and None
\* otherwise; a write through the mutable peek changes no other element.
C9_Expected(v, p, arg) ==
    IF Len(arg) = 1
    THEN IF p + arg[1] < Len(v) THEN Some(<<v[p + arg[1] + 1]>>) ELSE None
    ELSE IF arg[1] <= arg[2] /\ p + arg[2] <= Len(v)
         THEN Some([k \in 1 .. arg[2] - arg[1] |-> v[p + arg[1] + k]])
         ELSE None

C9_PeekContract ==
    [][PeekNext =>
        /\ ret' = C9_Expected(vec, index, peek_arg')
        /\ Len(vec') = Len(vec)
        /\ \A k \in 1 .. Len(vec) :
            vec'[k] # vec[k] =>
                /\ ret'.some
                /\ k > index + peek_arg'[1]
                /\ k <= index + peek_arg'[1] + Len(ret'.val)]_vars

C9_Witness ==
    /\ peek_arg = <<1, 2>> /\ ret = Some(<<3>>)
    /\ index = 1 /\ vec = <<1, 2, 3>>

\* C10: insert_and_process(v) at position p puts v at index p + 1, moves the
\* elements from p + 1 on up by one in order, leaves indices <= p and the
\* cursor unchanged, also when p is the last index.
C10_InsertAndProcessContract ==
    [][InsertAndProcess =>
        /\ pc' = "live"
        /\ Len(vec') = Len(vec) + 1
        /\ vec'[index + 2] \in Vals
        /\ hist'[index + 2].tag = "process"
        /\ \A k \in 1 .. index + 1 : vec'[k] = vec[k] /\ hist'[k] = hist[k]
        /\ \A k \in index + 2 .. Len(vec) :
            vec'[k + 1] = vec[k] /\ hist'[k + 1] = hist[k]
        /\ next_index' = next_index]_vars

C10_Witness ==
    /\ pc = "live" /\ h.proc /\ ~h.later_ins /\ index = Len(vec) - 2
    /\ hist[Len(vec)].tag = "process" /\ index = 1

\* C11: insert_and_skip(v) at position p leaves the sequence
\* insert_and_process(v) leaves and increases the cursor by exactly one; on a
\* fresh handle (cursor p + 1) the cursor becomes p + 2.
C11_InsertAndSkipContract ==
    [][InsertAndSkip =>
        /\ pc' = "live"
        /\ Len(vec') = Len(vec) + 1
        /\ vec'[index + 2] \in Vals
        /\ \A k \in 1 .. index + 1 : vec'[k] = vec[k]
        /\ \A k \in index + 2 .. Len(vec) : vec'[k + 1] = vec[k]
        /\ next_index' = next_index + 1
        /\ h = FreshH => next_index' = index + 2]_vars

\* C12: insert_and_process_vec([v1..vk]) at position p puts v1..vk at indices
\* p+1 .. p+k in their order, moves the elements from p+1 on up by k and
\* leaves the cursor unchanged; insert_and_skip_vec leaves the same sequence
\* and increases the cursor by exactly k; for k = 0 both change nothing.
C12_Inserted(k) ==
    /\ pc' = "live"
    /\ k \in 0 .. MaxIns
    /\ \A j \in 1 .. index + 1 : vec'[j] = vec[j]
    /\ \A j \in index + 2 .. index + 1 + k : vec'[j] \in Vals
    /\ \A j \in index + 2 .. Len(vec) : vec'[j + k] = vec[j]

C12_VecInsertContract ==
    /\ [][InsertAndProcessVec =>
            /\ C12_Inserted(Len(vec') - Len(vec))
            /\ next_index' = next_index]_vars
    /\ [][InsertAndSkipVec =>
            /\ C12_Inserted(Len(vec') - Len(vec))
            /\ next_index' = next_index + (Len(vec') - Len(vec))]_vars
    /\ [](pc = "live" =>
            \A ts \in SeqsUpTo(10 .. 9 + MaxIns, MaxIns) :
                insert_and_process_vec(vec, index, ts)
                    = SubSeq(vec, 1, index + 1) \o ts
                        \o SubSeq(vec, index + 2, Len(vec)))

\* C13: discard_and_stop_iteration returns the element at the position and
\* leaves the sequence discard leaves (that element removed, the later ones
\* one index down, nothing else touched), sets the cursor to the sentinel of
\* stop_iteration, and from then on no handle is constructed and the
\* sequence stays as it is.
C13_DiscardAndStop ==
    /\ [][DiscardAndStopIteration =>
            /\ pc' = "idle"
            /\ ret' = Some(<<vec[index + 1]>>)
            /\ Len(vec') = Len(vec) - 1
            /\ \A k \in 1 .. index : vec'[k] = vec[k]
            /\ \A k \in index + 2 .. Len(vec) : vec'[k - 1] = vec[k]
            /\ next_index' = UsizeMax]_vars
    /\ [][Discard =>
            (pc' = "idle" =>
                /\ ret' = Some(<<vec[index + 1]>>)
                /\ Len(vec') = Len(vec) - 1
                /\ \A k \in 1 .. index : vec'[k] = vec[k]
                /\ \A k \in index + 2 .. Len(vec) : vec'[k - 1] = vec[k])]_vars
    /\ [](h.end = "discard_and_stop_iteration" =>
            pc \in {"idle", "done"} /\ next_index = UsizeMax)
    /\ [][h.end = "discard_and_stop_iteration" =>
            /\ vec' = vec /\ index' = index
            /\ h'.end = "discard_and_stop_iteration"]_vars

C13_Witness ==
    /\ h.end = "discard_and_stop_iteration" /\ pc = "done"
    /\ index = 1 /\ vec = <<1, 3>> /\ ret = None /\ next_index = UsizeMax

\* C14: in a driven pass whose operation discards every handle, the
\* elements are returned each exactly once in their original order (what was
\* returned so far followed by what is left is the input), one handle is
\* constructed per element, and at the end of the pass the sequence is
\* empty and exactly N handles were constructed.
C14_DiscardAll ==
    /\ pc # "panicked"
    /\ pc # "live" =>
        /\ trace.returned \o vec = trace.vec0
        /\ Len(trace.visited) = Len(trace.returned)
    /\ pc = "live" => Len(trace.visited) = Len(trace.returned) + 1
    /\ pc = "done" =>
        /\ vec = <<>>
        /\ trace.returned = trace.vec0
        /\ Len(trace.visited) = Len(trace.vec0)

C14_Witness ==
    /\ pc = "done" /\ vec = <<>> /\ trace.vec0 = <<1, 2, 3>>
    /\ trace.returned = <<1, 2, 3>> /\ trace.visited = <<0, 0, 0>>

\* C15: in a driven pass whose operation calls insert_and_skip(v) exactly
\* once on every handle, no handle binds to an inserted element, and at the
\* end the sequence has length 2N, original and inserted elements
\* alternating (original first), and exactly N handles were constructed.
C15_InsertAndSkipAll ==
    /\ pc # "panicked"
    /\ pc = "live" => hist[index + 1].tag = "orig"
    /\ pc = "done" =>
        /\ Len(vec) = 2 * Len(trace.vec0)
        /\ \A k \in 1 .. Len(trace.vec0) :
            /\ vec[2 * k - 1] = trace.vec0[k] /\ hist[2 * k - 1].tag = "orig"
            /\ vec[2 * k] \in Vals /\ hist[2 * k].tag = "skip"
        /\ trace.visited = [k \in 1 .. Len(trace.vec0) |-> 2 * (k - 1)]

C15_Witness ==
    /\ pc = "done" /\ trace.vec0 = <<1, 2>> /\ vec = <<1, 0, 2, 0>>
    /\ trace.visited = <<0, 2>> /\ next_index = 4

\* C16: in a driven pass whose operation only uses get, get_mut, set and
\* replace, the length stays N, the handles bind to 0, 1, .., N-1 in this
\* order, a write changes only the element at the handle's position
\* (replace returning the previous value) and none of the four moves the
\* cursor.
C16_SetOnly ==
    /\ [](/\ pc # "panicked"
          /\ Len(vec) = Len(trace.vec0)
          /\ trace.visited = [k \in 1 .. Len(trace.visited) |-> k - 1]
          /\ pc = "done" => Len(trace.visited) = Len(trace.vec0))
    /\ [][(Get \/ GetMut \/ Set \/ Replace) =>
            /\ next_index' = next_index /\ index' = index /\ pc' = "live"
            /\ \A k \in 1 .. Len(vec) : k # index + 1 => vec'[k] = vec[k]]_vars
    /\ [][Get => vec' = vec /\ ret' = Some(<<vec[index + 1]>>)]_vars
    /\ [][Set => vec'[index + 1] \in Vals]_vars
    /\ [][Replace =>
            vec'[index + 1] \in Vals /\ ret' = Some(<<vec[index + 1]>>)]_vars

C16_Witness ==
    /\ pc = "done" /\ trace.vec0 = <<1, 2, 3>> /\ vec = <<0, 2, 0>>
    /\ trace.visited = <<0, 1, 2>> /\ next_index = 3

\* The manual loop of the claim: let mut index = 0; while let Some(handle) =
\* VecMutationHandle::new(&mut vec, &mut index) { .. }
ManualInit == Init /\ next_index = 0

C18_CursorNotBelowPosition ==
    /\ []((pc = "live" \/ h.end # "none") => next_index >= index)
    /\ [][(New /\ pc' = "live") => index' >= index]_vars

\* C19: while a handle is alive (constructed and not consumed), whatever
\* non-consuming operations were called on it, its position is below the
\* length of the sequence, so get and get_mut find an element there.
C19_PositionInBounds ==
    /\ [](pc = "live" => index < Len(vec))
    /\ [][(Get \/ GetMut) =>
            pc' = "live" /\ ret' = Some(<<vec[index + 1]>>)]_vars

C19_Witness ==
    /\ pc = "live" /\ h.skips /\ index = 1 /\ Len(vec) = 3
    /\ ret = Some(<<2>>) /\ next_index = UsizeMax /\ hist[3].tag = "skip"

\* C20: every operation of a handle at position p leaves the elements at
\* indices 0 .. p-1 as they are, in value and order; the peeks read and
\* write at p or later only (every offset and range, with a write at every
\* offset of the slice).
C20_Frame ==
    /\ [][pc = "live" =>
            /\ Len(vec') >= index
            /\ \A k \in 1 .. index : vec'[k] = vec[k] /\ hist'[k] = hist[k]]_vars
    /\ [](pc = "live" =>
            \A a \in PeekArgs, b \in PeekArgs :
                LET one == peek_forward_slice(vec, index, a)
                    many == peek_forward_slice_range(vec, index, a, b)
                IN  /\ one.some =>
                        /\ one.val = <<vec[index + a + 1]>>
                        /\ \A t \in Vals :
                            SubSeq(peek_write(vec, index, a, t), 1, index)
                                = SubSeq(vec, 1, index)
                    /\ many.some =>
                        /\ many.val = SubSeq(vec, index + a + 1, index + b)
                        /\ \A k \in 0 .. Len(many.val) - 1, t \in Vals :
                            SubSeq(peek_write_range(vec, index, a, k, t), 1, index)
                                = SubSeq(vec, 1, index))

C20_Witness ==
    /\ pc = "idle" /\ h.end = "discard" /\ h.proc /\ h.skips /\ index = 1
    /\ vec = <<1, 0>> /\ hist[2].tag = "process"

\* how a handle's life ends normally
C21_Ends == {"return", "discard", "stop_iteration", "discard_and_stop_iteration"}

\* C21 as stated: after a handle's life has ended normally and no skip was
\* called on it, the cursor is at least its position + 1.
C21_CursorPastPosition ==
    (h.end \in C21_Ends /\ pc # "panicked" /\ ~h.skips) => next_index >= index + 1

\* C21 amended: after the life of a handle at position p on which no skip
\* was called, the cursor is p + 1 if the handle fell out of scope, p if it
\* was discarded, and usize::MAX (above p) if it stopped the iteration; and
\* in a build with overflow checks a skip that returns never moves the
\* cursor backward.
C21_Amended ==
    /\ []((h.end \in C21_Ends /\ pc # "panicked" /\ ~h.skips) =>
            /\ h.end = "return" => next_index = index + 1
            /\ h.end = "discard" => next_index = index
            /\ h.end \in {"stop_iteration", "discard_and_stop_iteration"} =>
                next_index = UsizeMax /\ next_index >= index + 1)
    /\ [][((SkipForward \/ InsertAndSkip \/ InsertAndSkipVec)
                /\ overflow_checks /\ pc' = "live") =>
            next_index' >= next_index]_vars

C21_Witness ==
    /\ pc = "done" /\ h.end = "discard" /\ ~h.skips /\ ~h.proc
    /\ index = 2 /\ next_index = 2 /\ vec = <<1, 2>>

\* C22: in a driven pass whose operation calls no insert operation, the
\* quantity length - cursor never increases and strictly decreases with
\* every constructed handle (so at most N handles are constructed and the
\* pass ends), and no element is visited twice: a handle binds above the
\* position of a handle that fell out of scope, and not below that of a
\* discarded one.
C22_Measure == Len(vec) - next_index

C22_MeasureDecreases ==
    /\ [][pc' # "panicked" => C22_Measure' <= C22_Measure]_vars
    /\ [][(New /\ pc' = "live") => C22_Measure' < C22_Measure]_vars
    /\ [][(New /\ pc' = "live" /\ h.end = "return") => index' > index]_vars
    /\ [][(New /\ pc' = "live" /\ h.end = "discard") => index' >= index]_vars
====
